---- MODULE Spec2Model ----
(***************************************************************************)
(* rayopt/material.py: the Zemax glass catalog parser                      *)
(* (GlassCatalog.import_zemax), the pickle cache in front of it            *)
(* (GlassCatalog.cached_or_import) and the module-level construction of    *)
(* the vendor catalogs and of all_materials.                               *)
(*                                                                         *)
(* Floats are modelled by integers, text by sequences of tokens.  A line   *)
(* of a catalog file is [w, sp, rest]: its first word, whether a space     *)
(* follows that word, and the whitespace-delimited tokens after the space  *)
(* (the line's newline is added back by Args).                             *)
(***************************************************************************)
EXTENDS Integers, Sequences, FiniteSets, TLC

\* Longest catalog file, in lines.
MaxLen == 3

\* Longest source file behind the cache, in lines.
MaxSrcLen == 1

\* Most calls of cached_or_import in one run.
MaxCalls == 3

\* Longest vendor file read at process start, in lines.
MaxVendorLen == 1

-----------------------------------------------------------------------------
(* Text and numbers *)

NL == "\n"

\* float(a) of a token: defined on the numeric tokens only, and not
\* injective ("1" and "1.0" are the same float).
FloatTable == [t \in {"0", "1", "1.0", "2"} |->
                 CASE t = "0" -> 0 [] t = "1" -> 1 [] t = "1.0" -> 1 [] t = "2" -> 2]

CanFloat(t) == t \in DOMAIN FloatTable

\* map(float, toks): ok is FALSE when some float(tok) raises ValueError.
MapFloat(toks) ==
    [ok |-> \A k \in 1..Len(toks) : CanFloat(toks[k]),
     v  |-> [k \in 1..Len(toks) |-> IF CanFloat(toks[k]) THEN FloatTable[toks[k]] ELSE 0]]

\* line.split(" ", 1)[1]: everything after the first space, newline included.
Args(line) == line.rest \o <<NL>>

\* args.split(): the whitespace-delimited tokens.
SplitWs(a) == SelectSeq(a, LAMBDA t : t # NL)

Line(w, rest) == [w |-> w, sp |-> TRUE, rest |-> rest]

\* A line without any space: a bare "NM" followed by the newline.
NoSpace == [w |-> "NM", sp |-> FALSE, rest |-> <<>>]

\* The lines catalog files are made of.
Lines ==
    { NoSpace,
      Line("CC", <<"SCHOTT">>),
      Line("NM", <<"BK7", "1", "0", "1", "2">>),
      Line("NM", <<"F2", "1", "0", "1.0", "1">>),
      Line("NM", <<"SF6", "1", "0", "x", "1">>),
      Line("NM", <<"BK7", "1", "0">>),
      Line("GC", <<"c">>),
      Line("ED", <<"1", "2", "0">>),
      Line("CD", <<"1", "2", "0", "1">>),
      Line("CD", <<"0", "1">>),
      Line("TD", <<"1", "2">>),
      Line("OD", <<"-", "2", "0">>),
      Line("LD", <<"2", "1">>),
      Line("IT", <<"1", "2", "0">>),
      Line("IT", <<"1", "0", "0">>),
      Line("XX", <<"y">>) }

Files == UNION {[1..n -> Lines] : n \in 0..MaxLen}

-----------------------------------------------------------------------------
(* Material and the dict operations *)

\* Material(name=..., glasscode=..., nd=..., vd=...): the traits' defaults
\* for every other field.
Material(name_, glasscode_, nd_, vd_) ==
    [name |-> name_, comment |-> <<>>, solid |-> TRUE, mirror |-> FALSE,
     glasscode |-> glasscode_, nd |-> nd_, vd |-> vd_,
     density |-> 0, alpham3070 |-> 0, alpha20300 |-> 0,
     chemical |-> <<>>, thermal |-> <<>>, price |-> 0,
     transmission |-> <<>>, sellmeier |-> <<>>]

\* d[k] = v on a dict.
SetItem(d, k, v) == [x \in DOMAIN d \cup {k} |-> IF x = k THEN v ELSE d[x]]

-----------------------------------------------------------------------------
(* import_zemax: the locals cmd, g and s, the catalog (db, name) and the   *)
(* Material objects built so far (heap; db and g hold indices into it).    *)

VARIABLES file, pc, i, db, name, heap, g, s, cmd

pvars == <<file, pc, i, db, name, heap, g, s, cmd>>

\* cached_or_import: the source file at fil, the snapshot at fil + ".pickle"
\* what the last call returned or raised, and the number of calls so far.
VARIABLES fil, filpick, result, calls

cvars == <<fil, filpick, result, calls>>

\* The module-level statements: the vendor catalogs built so far (by
\* name), the mapping of all_materials, the statement group reached (mpc)
\* and the number of its statements or loop iterations already run (idx).
VARIABLES built, all_materials, mpc, idx

mvars == <<built, all_materials, mpc, idx>>

\* A caller of import_zemax: the number of the call under way (run), what
\* the first call left (first), what the last lookup returned or raised
\* (got) and the number of lookups so far.
VARIABLES run, first, got, lookups

uvars == <<run, first, got, lookups>>

\* A caller of refractive_index: the object, the wavelength in micrometres,
\* the value returned (index) and whether the call has been made (ipc).
VARIABLES obj, wavelength, index, ipc

ivars == <<obj, wavelength, index, ipc>>

xvars == <<uvars, ivars>>

\* cmd (and args, bound by the same statement) before the first successful
\* line.split.
NoCmd == "<unbound>"

\* The local s: unbound, a list of floats (TD, LD, IT) or a 2-column
\* array (CD).
Unbound == [kind |-> "unbound", v |-> <<>>]
ListOf(v) == [kind |-> "list", v |-> v]
ArrayOf(rows) == [kind |-> "array", v |-> rows]

Ok(st) == [st |-> st, ok |-> TRUE]
Raise(st) == [st |-> st, ok |-> FALSE]

\* A variant of the NM branch that stores the record under the second
\* token of the line instead of the record's name.
CmdNMKeyedBySecond(st, a) ==
    IF Len(a) >= 5 /\ CanFloat(a[3]) /\ CanFloat(a[4]) /\ CanFloat(a[5])
    THEN LET m == Material(a[1], FloatTable[a[3]], FloatTable[a[4]], FloatTable[a[5]])
             id == Len(st.heap) + 1
         IN Ok([st EXCEPT !.heap = Append(@, m), !.g = id,
                          !.db = SetItem(@, a[2], id)])
    ELSE Raise(st)

\* elif cmd == "NM"
CmdNM(st, a) ==
    IF Len(a) >= 5 /\ CanFloat(a[3]) /\ CanFloat(a[4]) /\ CanFloat(a[5])
    THEN LET m == Material(a[1], FloatTable[a[3]], FloatTable[a[4]], FloatTable[a[5]])
             id == Len(st.heap) + 1
         IN Ok([st EXCEPT !.heap = Append(@, m), !.g = id,
                          !.db = SetItem(@, m.name, id)])
    ELSE Raise(st)

\* elif cmd == "GC"
CmdGC(st, args) ==
    IF st.g = 0 THEN Raise(st)
    ELSE Ok([st EXCEPT !.heap[st.g].comment = args])

\* elif cmd == "ED"
CmdED(st, a) ==
    LET f == MapFloat(a) IN
    IF ~f.ok \/ Len(a) < 3 \/ st.g = 0 THEN Raise(st)
    ELSE Ok([st EXCEPT !.heap[st.g].alpham3070 = f.v[1],
                       !.heap[st.g].alpha20300 = f.v[2],
                       !.heap[st.g].density = f.v[3]])

\* reshape((-1, 2)) of a flat list of even length.
Reshape2(v) == [k \in 1..(Len(v) \div 2) |-> <<v[2 * k - 1], v[2 * k]>>]

\* elif cmd == "CD": s is bound before g is looked up; an array left with
\* no row has shape (0,), which the trait's shape (None, 2) rejects.
CmdCD(st, a) ==
    LET f == MapFloat(a) IN
    IF ~f.ok \/ Len(a) % 2 # 0 THEN Raise(st)
    ELSE LET rows == Reshape2(f.v)
             st1 == [st EXCEPT !.s = ArrayOf(rows)]
             kept == SelectSeq(rows, LAMBDA si : ~(si[1] = 0))
         IN IF st.g = 0 \/ kept = <<>> THEN Raise(st1)
            ELSE Ok([st1 EXCEPT !.heap[st.g].sellmeier = kept])

\* elif cmd == "TD"
CmdTD(st, a) ==
    LET f == MapFloat(a) IN
    IF ~f.ok THEN Raise(st)
    ELSE LET st1 == [st EXCEPT !.s = ListOf(f.v)]
         IN IF st.g = 0 THEN Raise(st1)
            ELSE Ok([st1 EXCEPT !.heap[st.g].thermal = f.v])

\* s[1:]
Rest(v) == IF v = <<>> THEN <<>> ELSE Tail(v)

\* elif cmd == "OD": reads s, not args.  float() of a row of an array
\* raises; s[0] of an empty s raises after chemical has been assigned.
CmdOD(st) ==
    IF st.s.kind = "unbound" THEN Raise(st)
    ELSE IF st.s.kind = "array" /\ Len(st.s.v) > 1 THEN Raise(st)
    ELSE IF st.g = 0 THEN Raise(st)
    ELSE LET chem == IF st.s.kind = "list" THEN Rest(st.s.v) ELSE <<>>
             st1 == [st EXCEPT !.heap[st.g].chemical = chem]
         IN IF st.s.kind = "array" \/ st.s.v = <<>> THEN Raise(st1)
            ELSE Ok([st1 EXCEPT !.heap[st.g].price = st.s.v[1]])

\* elif cmd == "LD"
CmdLD(st, a) ==
    LET f == MapFloat(a) IN
    IF ~f.ok THEN Raise(st) ELSE Ok([st EXCEPT !.s = ListOf(f.v)])

\* A variant of the IT branch that keeps the value already stored under
\* the key (dict.setdefault instead of item assignment).
CmdITKeepFirst(st, a) ==
    LET f == MapFloat(a) IN
    IF ~f.ok THEN Raise(st)
    ELSE LET st1 == [st EXCEPT !.s = ListOf(f.v)]
             key == <<f.v[1], f.v[3]>>
         IN IF Len(a) < 3 \/ st.g = 0 THEN Raise(st1)
            ELSE IF key \in DOMAIN st.heap[st.g].transmission THEN Ok(st1)
            ELSE Ok([st1 EXCEPT !.heap[st.g].transmission =
                                    SetItem(@, key, f.v[2])])

\* elif cmd == "IT"
CmdIT(st, a) ==
    LET f == MapFloat(a) IN
    IF ~f.ok THEN Raise(st)
    ELSE LET st1 == [st EXCEPT !.s = ListOf(f.v)]
         IN IF Len(a) < 3 \/ st.g = 0 THEN Raise(st1)
            ELSE Ok([st1 EXCEPT !.heap[st.g].transmission =
                                    SetItem(@, <<f.v[1], f.v[3]>>, f.v[2])])

\* The body of the try statement for one line.
TryLine(st, line) ==
    IF ~line.sp THEN Raise(st)
    ELSE LET st1 == [st EXCEPT !.cmd = line.w]
             args == Args(line)
         IN CASE line.w = "CC" -> Ok([st1 EXCEPT !.name = args])
              [] line.w = "NM" -> CmdNM(st1, SplitWs(args))
              [] line.w = "GC" -> CmdGC(st1, args)
              [] line.w = "ED" -> CmdED(st1, SplitWs(args))
              [] line.w = "CD" -> CmdCD(st1, SplitWs(args))
              [] line.w = "TD" -> CmdTD(st1, SplitWs(args))
              [] line.w = "OD" -> CmdOD(st1)
              [] line.w = "LD" -> CmdLD(st1, SplitWs(args))
              [] line.w = "IT" -> CmdIT(st1, SplitWs(args))
              [] OTHER -> Ok(st1)

\* One iteration of the for loop. The except clause prints cmd and args:
\* with cmd unbound that print raises NameError out of import_zemax.
ParseLine(st, line) ==
    LET r == TryLine(st, line) IN
    IF r.ok \/ r.st.cmd # NoCmd THEN [st |-> r.st, ok |-> r.ok, exc |-> FALSE]
    ELSE [st |-> r.st, ok |-> FALSE, exc |-> TRUE]

\* self.db[g.name] = g after the loop: NameError when g is unbound.
Commit(st) ==
    IF st.g = 0 THEN [st |-> st, exc |-> TRUE]
    ELSE [st |-> [st EXCEPT !.db = SetItem(@, st.heap[st.g].name, st.g)], exc |-> FALSE]

\* A fresh GlassCatalog and the locals at the entry of import_zemax.
Fresh == [db |-> <<>>, name |-> <<>>, heap |-> <<>>, g |-> 0, s |-> Unbound, cmd |-> NoCmd]

State == [db |-> db, name |-> name, heap |-> heap, g |-> g, s |-> s, cmd |-> cmd]

\* An empty GlassCatalog, and the value of result when a call raised.
EmptyCat == [name |-> <<>>, db |-> <<>>]
NoFile == [exists |-> FALSE, readable |-> FALSE, bytes |-> <<>>]

\* No second call and no lookup.
NoCall == [exc |-> FALSE, cat |-> EmptyCat]
NoItem == [exc |-> "nocall", val |-> 0]

CallerIdle ==
    /\ run = 1
    /\ first = NoCall
    /\ got = NoItem
    /\ lookups = 0

\* No call of refractive_index under way.
NoObject == [cls |-> "none"]
NoNumber == [k |-> "none", v |-> 0]

IndexIdle ==
    /\ obj = NoObject
    /\ wavelength = 0
    /\ index = NoNumber
    /\ ipc = "idle"

\* No call of cached_or_import under way.
CacheIdle ==
    /\ fil = [exists |-> FALSE, lines |-> <<>>]
    /\ filpick = NoFile
    /\ result = [exc |-> "nocall", cat |-> EmptyCat]
    /\ calls = 0

\* The module-level statements are not running.
StartupIdle ==
    /\ built = <<>>
    /\ all_materials = <<>>
    /\ mpc = "idle"
    /\ idx = 0

Init ==
    /\ file \in Files
    /\ pc = "parse"
    /\ i = 1
    /\ db = Fresh.db /\ name = Fresh.name /\ heap = Fresh.heap
    /\ g = Fresh.g /\ s = Fresh.s /\ cmd = Fresh.cmd
    /\ CacheIdle
    /\ StartupIdle
    /\ CallerIdle
    /\ IndexIdle

Assign(st) ==
    /\ db' = st.db /\ name' = st.name /\ heap' = st.heap
    /\ g' = st.g /\ s' = st.s /\ cmd' = st.cmd

\* for line in dat: try ... except ...
ProcessLine ==
    /\ pc = "parse" /\ i <= Len(file)
    /\ LET r == ParseLine(State, file[i]) IN
         /\ Assign(r.st)
         /\ IF r.exc THEN pc' = "raised" /\ i' = i
            ELSE pc' = pc /\ i' = i + 1
    /\ UNCHANGED <<file, cvars, mvars, xvars>>

\* The statement after the loop, and the return.
Finish ==
    /\ pc = "parse" /\ i > Len(file)
    /\ LET r == Commit(State) IN
         /\ Assign(r.st)
         /\ pc' = IF r.exc THEN "raised" ELSE "done"
    /\ UNCHANGED <<file, i, cvars, mvars, xvars>>

\* import_zemax as a function of the lines of the file: the loop, then the
\* statement after it; exc when an exception leaves import_zemax.
RECURSIVE Loop(_, _, _)
Loop(st, lines, k) ==
    IF k > Len(lines) THEN Commit(st)
    ELSE LET r == ParseLine(st, lines[k]) IN
         IF r.exc THEN [st |-> r.st, exc |-> TRUE] ELSE Loop(r.st, lines, k + 1)

ImportZemax(lines) == Loop(Fresh, lines, 1)

\* What a GlassCatalog holds: its name and, under each key, the Material.
Catalog(st) == [name |-> st.name, db |-> [k \in DOMAIN st.db |-> st.heap[st.db[k]]]]

vars == <<pvars, cvars, mvars, xvars>>

Next == ProcessLine \/ Finish

Spec == Init /\ [][Next]_vars

-----------------------------------------------------------------------------
(* cached_or_import *)

\* The lines the source files behind the cache are made of.
SrcLines ==
    { NoSpace,
      Line("NM", <<"BK7", "1", "0", "1", "2">>),
      Line("NM", <<"F2", "1", "0", "1.0", "1">>) }

SrcFiles == UNION {[1..n -> SrcLines] : n \in 0..MaxSrcLen}

\* pickle.dump(c, f, protocol=2): the protocol header, the catalog's name,
\* its items and the STOP opcode.
Dump(cat) ==
    [proto |-> 2, name |-> cat.name,
     items |-> {<<k, cat.db[k]>> : k \in DOMAIN cat.db}, stop |-> TRUE]

\* pickle.load(open(filpick)): IOError from open, UnpicklingError on a
\* damaged header, EOFError when the STOP opcode is missing.
PickleLoad(f) ==
    IF ~f.exists \/ ~f.readable THEN [exc |-> "IOError", cat |-> EmptyCat]
    ELSE IF f.bytes.proto # 2 THEN [exc |-> "UnpicklingError", cat |-> EmptyCat]
    ELSE IF ~f.bytes.stop THEN [exc |-> "EOFError", cat |-> EmptyCat]
    ELSE [exc |-> "none",
          cat |-> [name |-> f.bytes.name,
                   db |-> [k \in {it[1] : it \in f.bytes.items} |->
                             (CHOOSE it \in f.bytes.items : it[1] = k)[2]]]]

\* c = cls(); c.import_zemax(fil): open(fil) raises IOError.
ImportFile(src) ==
    IF ~src.exists THEN [exc |-> "IOError", cat |-> EmptyCat]
    ELSE LET r == ImportZemax(src.lines) IN
         IF r.exc THEN [exc |-> "NameError", cat |-> EmptyCat]
         ELSE [exc |-> "none", cat |-> Catalog(r.st)]

\* cached_or_import(fil): only IOError leads to the import; the snapshot is
\* written after import_zemax has returned.
CachedOrImportOf(src, pick) ==
    LET l == PickleLoad(pick) IN
    IF l.exc # "IOError" THEN [result |-> l, filpick |-> pick]
    ELSE LET r == ImportFile(src) IN
         IF r.exc # "none" THEN [result |-> r, filpick |-> pick]
         ELSE [result |-> r,
               filpick |-> [exists |-> TRUE,
                            readable |-> (~pick.exists \/ pick.readable),
                            bytes |-> Dump(r.cat)]]

CacheInit ==
    /\ file = <<>> /\ pc = "idle" /\ i = 1
    /\ db = Fresh.db /\ name = Fresh.name /\ heap = Fresh.heap
    /\ g = Fresh.g /\ s = Fresh.s /\ cmd = Fresh.cmd
    /\ fil \in [exists : {TRUE}, lines : SrcFiles]
    /\ filpick = NoFile
    /\ result = [exc |-> "nocall", cat |-> EmptyCat]
    /\ calls = 0
    /\ StartupIdle
    /\ CallerIdle
    /\ IndexIdle

CachedOrImport ==
    /\ calls < MaxCalls
    /\ calls' = calls + 1
    /\ LET r == CachedOrImportOf(fil, filpick) IN
         result' = r.result /\ filpick' = r.filpick
    /\ UNCHANGED <<fil, pvars, mvars, xvars>>

\* The file system between two calls: the source is rewritten or removed,
\* the snapshot is removed, cut short, damaged or made unreadable.
WriteSource ==
    /\ \E f \in SrcFiles : fil' = [exists |-> TRUE, lines |-> f]
    /\ fil' # fil
    /\ UNCHANGED <<filpick, result, calls, pvars, mvars, xvars>>

RemoveSource ==
    /\ fil.exists
    /\ fil' = [exists |-> FALSE, lines |-> <<>>]
    /\ UNCHANGED <<filpick, result, calls, pvars, mvars, xvars>>

RemoveSnapshot ==
    /\ filpick.exists
    /\ filpick' = NoFile
    /\ UNCHANGED <<fil, result, calls, pvars, mvars, xvars>>

TruncateSnapshot ==
    /\ filpick.exists /\ filpick.bytes.stop
    /\ filpick' = [filpick EXCEPT !.bytes.stop = FALSE]
    /\ UNCHANGED <<fil, result, calls, pvars, mvars, xvars>>

CorruptSnapshot ==
    /\ filpick.exists /\ filpick.bytes.proto = 2
    /\ filpick' = [filpick EXCEPT !.bytes.proto = 0]
    /\ UNCHANGED <<fil, result, calls, pvars, mvars, xvars>>

ProtectSnapshot ==
    /\ filpick.exists /\ filpick.readable
    /\ filpick' = [filpick EXCEPT !.readable = FALSE]
    /\ UNCHANGED <<fil, result, calls, pvars, mvars, xvars>>

CacheNext ==
    \/ CachedOrImport
    \/ WriteSource
    \/ RemoveSource
    \/ RemoveSnapshot
    \/ TruncateSnapshot
    \/ CorruptSnapshot
    \/ ProtectSnapshot

CacheSpec == CacheInit /\ [][CacheNext]_vars

-----------------------------------------------------------------------------
(* The module-level statements after the class definitions *)

\* np.inf
Inf == 1000000

\* The bootstrap materials. Sellmeier coefficients in units of 1e-8, poles
\* in units of 1e-4; nd of air and air_mirror is their default, the
\* (replaced) refractive_index at the d line, rounded.
AirSellmeier == <<<<5792105, 2380185>>, <<167917, 573620>>>>

vacuum == [Material("vacuum", 0, 1, Inf) EXCEPT !.solid = FALSE]
vacuum_mirror == [Material("vacuum_mirror", 0, -1, Inf) EXCEPT !.solid = FALSE]
air == [Material("air", 0, 1, Inf) EXCEPT !.solid = FALSE, !.sellmeier = AirSellmeier]
air_mirror ==
    [Material("air_mirror", 0, -1, Inf) EXCEPT !.solid = FALSE, !.sellmeier = AirSellmeier]

Bootstrap == <<air, vacuum, air_mirror, vacuum_mirror>>

\* The catalogs in the order they are built, and in the order they are
\* merged.
LoadOrder == <<"schott", "ohara", "misc", "infrared", "heraeus", "corning", "hoya">>
MergeOrder == <<"misc", "infrared", "ohara", "schott", "heraeus", "corning">>

\* The lines the vendor files are made of, and the vendor files.
VendorLines ==
    { Line("NM", <<"BK7", "1", "0", "1", "2">>),
      Line("NM", <<"BK7", "1", "0", "2", "2">>),
      Line("NM", <<"F2", "1", "0", "1.0", "1">>) }

VendorFiles == UNION {[1..n -> VendorLines] : n \in 0..MaxVendorLen}

\* d.update(other)
DictUpdateKeepFirst(d, other) ==
    [x \in DOMAIN d \cup DOMAIN other |-> IF x \in DOMAIN d THEN d[x] ELSE other[x]]

DictUpdate(d, other) ==
    [x \in DOMAIN d \cup DOMAIN other |-> IF x \in DOMAIN other THEN other[x] ELSE d[x]]

StartupInit ==
    /\ file = <<>> /\ pc = "idle" /\ i = 1
    /\ db = Fresh.db /\ name = Fresh.name /\ heap = Fresh.heap
    /\ g = Fresh.g /\ s = Fresh.s /\ cmd = Fresh.cmd
    /\ CacheIdle
    /\ CallerIdle
    /\ IndexIdle
    /\ built = <<>>
    /\ all_materials = <<>>
    /\ mpc = "load"
    /\ idx = 0

\* schott = GlassCatalog.cached_or_import(catpath+"schott.agf") and the six
\* statements after it: the vendor file is missing or holds some lines,
\* and no snapshot of it exists yet. An exception ends the module.
LoadVendor ==
    /\ mpc = "load" /\ idx < Len(LoadOrder)
    /\ \E src \in [exists : {TRUE}, lines : VendorFiles] \cup {[exists |-> FALSE, lines |-> <<>>]} :
         LET r == CachedOrImportOf(src, NoFile).result IN
           IF r.exc = "none"
           THEN /\ built' = SetItem(built, LoadOrder[idx + 1], r.cat)
                /\ idx' = idx + 1
                /\ mpc' = mpc
           ELSE /\ mpc' = "failed"
                /\ UNCHANGED <<built, idx>>
    /\ UNCHANGED <<all_materials, pvars, cvars, xvars>>

\* all_materials = GlassCatalog()
NewAllMaterials ==
    /\ mpc = "load" /\ idx = Len(LoadOrder)
    /\ all_materials' = EmptyCat.db
    /\ mpc' = "merge"
    /\ idx' = 0
    /\ UNCHANGED <<built, pvars, cvars, xvars>>

\* for cat in misc, infrared, ohara, schott, heraeus, corning:
\*     all_materials.db.update(cat.db)
MergeVendor ==
    /\ mpc = "merge" /\ idx < Len(MergeOrder)
    /\ all_materials' = DictUpdate(all_materials, built[MergeOrder[idx + 1]].db)
    /\ IF idx + 1 = Len(MergeOrder) THEN mpc' = "bootstrap" /\ idx' = 0
       ELSE mpc' = mpc /\ idx' = idx + 1
    /\ UNCHANGED <<built, pvars, cvars, xvars>>

\* for m in air, vacuum, air_mirror, vacuum_mirror:
\*     all_materials.db[m.name] = m
AddBootstrap ==
    /\ mpc = "bootstrap" /\ idx < Len(Bootstrap)
    /\ all_materials' = SetItem(all_materials, Bootstrap[idx + 1].name, Bootstrap[idx + 1])
    /\ IF idx + 1 = Len(Bootstrap) THEN mpc' = "done" /\ idx' = 0
       ELSE mpc' = mpc /\ idx' = idx + 1
    /\ UNCHANGED <<built, pvars, cvars, xvars>>

StartupNext == LoadVendor \/ NewAllMaterials \/ MergeVendor \/ AddBootstrap

StartupSpec == StartupInit /\ [][StartupNext]_vars

-----------------------------------------------------------------------------
(* Properties of import_zemax *)

IsNM(line) == line.sp /\ line.w = "NM"
WellFormedNM(line) == IsNM(line) /\ TryLine(Fresh, line).ok
MalformedNM(line) == IsNM(line) /\ ~TryLine(Fresh, line).ok
Returned == pc \in {"done", "raised"}

\* C1: a line whose processing fails never ends import_zemax: an exception
\* leaves the call only after every line has been processed.
C1_LineFailureCaught == pc = "raised" => i > Len(file)

\* C2: when no NM line of the source is parsed successfully, import_zemax
\* gets through every line, returns normally and leaves the mapping empty.
C2_NoMaterialReturns ==
    (Returned /\ i > Len(file) /\ \A k \in 1..Len(file) : ~WellFormedNM(file[k]))
        => (pc = "done" /\ DOMAIN db = {})

\* The line that started the Material heap[h]: the h-th well-formed NM line.
StartLine(h) ==
    CHOOSE k \in 1..Len(file) :
        WellFormedNM(file[k]) /\ Cardinality({j \in 1..k : WellFormedNM(file[j])}) = h

\* C3: processing a line changes no Material that was started before an NM
\* line already read, whether or not that NM line parsed successfully.
C3_OnlyCurrentRecordChanges ==
    [][(pc = "parse" /\ i <= Len(file)) =>
          \A h \in 1..Len(heap) :
              (\E k \in (StartLine(h) + 1)..(i - 1) : IsNM(file[k])) => heap'[h] = heap[h]]_vars

\* The names only malformed NM lines give.
OnlyMalformedNames ==
    {file[k].rest[1] : k \in {j \in 1..Len(file) : MalformedNM(file[j]) /\ file[j].rest # <<>>}}
        \ {file[k].rest[1] : k \in {j \in 1..Len(file) : WellFormedNM(file[j])}}

\* C4: for a source with a malformed NM line and, later, a well-formed NM
\* line of another name, import_zemax completes, the mapping holds the
\* well-formed material under its name and not the malformed line's name.
C4_RecoversFromMalformedNM ==
    \A j, k \in 1..Len(file) :
        (Returned /\ j < k /\ MalformedNM(file[j]) /\ WellFormedNM(file[k])
                  /\ (file[j].rest = <<>> \/ file[j].rest[1] # file[k].rest[1]))
            => /\ pc = "done"
               /\ file[k].rest[1] \in DOMAIN db
               /\ heap[db[file[k].rest[1]]].name = file[k].rest[1]
               /\ OnlyMalformedNames \cap DOMAIN db = {}

\* C5: an OD line processed for the current material sets its price to the
\* float of the line's own first token (no float when the token is "-")
\* and its chemical to the floats of the line's own remaining tokens.
C5_ODUsesOwnArgs ==
    [][(pc = "parse" /\ i <= Len(file) /\ file[i].sp /\ file[i].w = "OD"
           /\ g # 0 /\ TryLine(State, file[i]).ok) =>
          LET own == SplitWs(Args(file[i])) IN
            /\ heap'[g].chemical = MapFloat(Rest(own)).v
            /\ IF own[1] = "-" THEN heap'[g].price \notin Int
               ELSE heap'[g].price = FloatTable[own[1]]]_vars

WithoutLD(lines) == SelectSeq(lines, LAMBDA l : ~(l.sp /\ l.w = "LD"))

\* C6: when import_zemax returns a catalog for a source and for the same
\* source without its LD lines, the two catalogs are identical.
C6_LDHasNoEffect ==
    (pc = "done" /\ ~ImportZemax(WithoutLD(file)).exc)
        => Catalog(State) = Catalog(ImportZemax(WithoutLD(file)).st)

-----------------------------------------------------------------------------
(* Properties of cached_or_import *)

\* C7: a call with a readable source never fails because of the snapshot:
\* when the snapshot cannot be deserialized the call does what import_zemax
\* does on the source and, when that returns, leaves a fresh snapshot.
C7_AnyLoadFailureReparses ==
    [][(CachedOrImport /\ fil.exists /\ PickleLoad(filpick).exc # "none") =>
          /\ result' = ImportFile(fil)
          /\ result'.exc = "none" =>
                (filpick'.exists /\ filpick'.bytes = Dump(result'.cat))]_vars

\* C8: a call that returns a catalog returns the catalog import_zemax
\* produces from the source file as it is at the time of the call.
C8_CacheIsTransparent ==
    [][(CachedOrImport /\ result'.exc = "none" /\ ImportFile(fil).exc = "none") =>
          result'.cat = ImportFile(fil).cat]_vars

-----------------------------------------------------------------------------
(* Properties of the merge into all_materials *)

\* The number of catalogs of MergeOrder merged so far, while no bootstrap
\* material has been added.
Merged == IF mpc = "merge" THEN idx ELSE Len(MergeOrder)

\* The position in MergeOrder of the last catalog merged so far that
\* defines n.
LastDefining(n) ==
    CHOOSE j \in 1..Merged :
        /\ n \in DOMAIN built[MergeOrder[j]].db
        /\ \A j2 \in (j + 1)..Merged : n \notin DOMAIN built[MergeOrder[j2]].db

\* C9: merging catalogs in order is last-writer-wins: the master's keys
\* are the union of the merged catalogs' keys and each key holds the
\* record of the last merged catalog that defines it.
C9_LastWriterWins ==
    (mpc = "merge" \/ (mpc = "bootstrap" /\ idx = 0)) =>
        /\ DOMAIN all_materials = UNION {DOMAIN built[MergeOrder[j]].db : j \in 1..Merged}
        /\ \A n \in DOMAIN all_materials :
              all_materials[n] = built[MergeOrder[LastDefining(n)]].db[n]

\* Two merged catalogs define BK7 differently and the master holds the
\* later one's record.
C9_Witness ==
    /\ mpc = "bootstrap" /\ idx = 0
    /\ \E j1, j2 \in 1..Len(MergeOrder) :
         /\ j1 < j2
         /\ "BK7" \in DOMAIN built[MergeOrder[j1]].db
         /\ "BK7" \in DOMAIN built[MergeOrder[j2]].db
         /\ built[MergeOrder[j1]].db["BK7"].nd # built[MergeOrder[j2]].db["BK7"].nd
         /\ \A j3 \in (j2 + 1)..Len(MergeOrder) : "BK7" \notin DOMAIN built[MergeOrder[j3]].db
         /\ all_materials["BK7"] = built[MergeOrder[j2]].db["BK7"]

\* C10: after the module-level statements every key of every vendor
\* catalog built is a key of all_materials.
C10_EveryBuiltCatalogMerged ==
    mpc = "done" =>
        \A v \in DOMAIN built : DOMAIN built[v].db \subseteq DOMAIN all_materials

-----------------------------------------------------------------------------
(* Further properties of import_zemax *)

\* A CD line with an even number of floats.
WellFormedCD(line) ==
    /\ line.sp /\ line.w = "CD"
    /\ MapFloat(line.rest).ok /\ Len(line.rest) % 2 = 0

\* The (coefficient, pole) pairs of a CD line, those with a zero coefficient
\* removed.
NonZeroPairs(line) ==
    SelectSeq([j \in 1..(Len(line.rest) \div 2) |->
                  <<FloatTable[line.rest[2 * j - 1]], FloatTable[line.rest[2 * j]]>>],
              LAMBDA pr : pr[1] # 0)

NoZeroRow ==
    \A h \in 1..Len(heap) :
        \A j \in 1..Len(heap[h].sellmeier) : heap[h].sellmeier[j][1] # 0

\* C11: after a well-formed CD line the current material's Sellmeier
\* sequence is the line's pairs, in order, without those whose coefficient
\* is zero (empty when all are), and no record ever stores a row with a
\* zero coefficient.
C11_CDStoresNonZeroPairs ==
    [][/\ (pc = "parse" /\ i <= Len(file) /\ WellFormedCD(file[i]) /\ g # 0)
            => heap'[g].sellmeier = NonZeroPairs(file[i])
       /\ NoZeroRow']_vars

\* C13: a call made while the source file cannot be opened surfaces the
\* failure to its caller: cached_or_import returns no catalog and writes
\* no snapshot, and import_zemax raises as well.
C13_MissingSourceSurfaces ==
    [][(CachedOrImport /\ ~fil.exists)
          => /\ ImportFile(fil).exc = "IOError"
             /\ result'.exc # "none"
             /\ filpick' = filpick]_vars

\* An IT line with exactly three floats.
WellFormedIT(line) ==
    /\ line.sp /\ line.w = "IT"
    /\ MapFloat(line.rest).ok /\ Len(line.rest) = 3

ITKey(line) == <<FloatTable[line.rest[1]], FloatTable[line.rest[3]]>>

ITValue(line) == FloatTable[line.rest[2]]

-----------------------------------------------------------------------------
(* Parsing and the module-level merge together *)

\* A behaviour is either one call of import_zemax or the module-level
\* statements.
CatalogSpec == (Init \/ StartupInit) /\ [][Next \/ StartupNext]_vars

\* C18: every key of a catalog's mapping, while a source is parsed, in
\* each vendor catalog built and in all_materials while catalogs are merged
\* into it, maps to a record whose name is that key.
C18_KeyIsRecordName ==
    /\ \A k \in DOMAIN db : heap[db[k]].name = k
    /\ \A v \in DOMAIN built : \A k \in DOMAIN built[v].db : built[v].db[k].name = k
    /\ \A k \in DOMAIN all_materials : all_materials[k].name = k

\* A source has defined the same name twice, with records that differ, and
\* the mapping holds the later record under that name.
C18_Witness ==
    /\ pc = "done"
    /\ \E h1, h2 \in 1..Len(heap) :
          /\ h1 < h2
          /\ heap[h1].name = heap[h2].name
          /\ heap[h1] # heap[h2]
          /\ heap[h2].name \in DOMAIN db
          /\ db[heap[h2].name] = h2

-----------------------------------------------------------------------------
(* Sources made of NM, TD, CD and OD lines *)

MaxODLen == 5

ODLines ==
    { Line("NM", <<"BK7", "1", "0", "1", "2">>),
      Line("TD", <<"1", "2">>),
      Line("CD", <<"0", "1">>),
      Line("OD", <<"-", "2", "0">>) }

ODFiles == UNION {[1..n -> ODLines] : n \in 0..MaxODLen}

ODInit ==
    /\ file \in ODFiles
    /\ pc = "parse"
    /\ i = 1
    /\ db = Fresh.db /\ name = Fresh.name /\ heap = Fresh.heap
    /\ g = Fresh.g /\ s = Fresh.s /\ cmd = Fresh.cmd
    /\ CacheIdle
    /\ StartupIdle
    /\ CallerIdle
    /\ IndexIdle

ODSpec == ODInit /\ [][Next]_vars

\* C17: a line whose processing fails leaves the catalog's name, its
\* mapping and every field of every record as they were before the line.
C17_FailedLineChangesNothing ==
    [][(pc = "parse" /\ i <= Len(file) /\ ~TryLine(State, file[i]).ok)
          => (name' = name /\ db' = db /\ heap' = heap)]_vars

-----------------------------------------------------------------------------
(* A caller that imports the same source again and looks names up *)

MaxRuns == 2
MaxLookups == 1

\* What a call of import_zemax leaves its caller: whether it raised, and
\* the catalog it was made on.
Outcome == [exc |-> pc = "raised", cat |-> Catalog(State)]

\* A variant of the entry of import_zemax in which s is not a local of the
\* call but survives from the call before.
EntryKeepsLocals(prev) == [Fresh EXCEPT !.s = prev.s]

\* c = GlassCatalog(); c.import_zemax(fil) after an earlier call that ended
\* in prev: a new catalog, and the locals of a new call.
Entry(prev) == Fresh

\* The same source is imported again into a new GlassCatalog.
CallAgain ==
    /\ Returned /\ run < MaxRuns
    /\ first' = IF run = 1 THEN Outcome ELSE first
    /\ run' = run + 1
    /\ Assign(Entry(State))
    /\ pc' = "parse" /\ i' = 1
    /\ UNCHANGED <<file, cvars, mvars, got, lookups, ivars>>

\* The names looked up.
Names == {"BK7", "F2", "SF6"}

\* A variant of __getitem__ that answers None for an absent name, as
\* dict.get does.
GetItemOrNone(d, k) ==
    IF k \in DOMAIN d THEN [exc |-> "none", val |-> d[k]]
    ELSE [exc |-> "none", val |-> 0]

\* self.db[name]: the record (its place in heap), or KeyError.
GetItem(d, k) ==
    IF k \in DOMAIN d THEN [exc |-> "none", val |-> d[k]]
    ELSE [exc |-> "KeyError", val |-> 0]

\* catalog[k] on the catalog a call of import_zemax was made on.
Lookup(k) ==
    /\ Returned /\ lookups < MaxLookups
    /\ got' = GetItem(db, k)
    /\ lookups' = lookups + 1
    /\ UNCHANGED <<pvars, cvars, mvars, run, first, ivars>>

CallNext == Next \/ CallAgain \/ (\E k \in Names : Lookup(k))

CallSpec == Init /\ [][CallNext]_vars

C15_LookupReturnsOrRaises ==
    [][\A k \in Names :
          Lookup(k) =>
              /\ k \in DOMAIN db => (got'.exc = "none" /\ got'.val = db[k])
              /\ k \notin DOMAIN db => got'.exc = "KeyError"
              /\ db' = db /\ heap' = heap /\ name' = name]_vars

\* A name that is not a key has been looked up in a catalog that holds
\* other names.
C15_Witness ==
    /\ lookups > 0 /\ got.exc = "KeyError"
    /\ db # <<>>

-----------------------------------------------------------------------------
(* refractive_index *)

MaxWavelength == 3

\* float64 values are fixed-point numbers with Scale units to one, or an
\* infinity (v its sign), or not a number.
Scale == 10000

Num(v) == [k |-> "num", v |-> v]
PosInf == [k |-> "inf", v |-> 1]
NegInf == [k |-> "inf", v |-> -1]
NaN == [k |-> "nan", v |-> 0]

\* -x
Neg(x) == IF x.k = "nan" THEN x ELSE [x EXCEPT !.v = -@]

\* a / d rounded towards zero, d # 0.
Quot(a, d) ==
    IF d > 0 THEN (IF a >= 0 THEN a \div d ELSE -((-a) \div d))
    ELSE (IF a >= 0 THEN -(a \div (-d)) ELSE (-a) \div (-d))

\* The float a / d of two whole numbers, as numpy divides: x/0 is an
\* infinity and 0/0 is not a number.
Div(a, d) ==
    IF d # 0 THEN Num(Quot(a * Scale, d))
    ELSE IF a = 0 THEN NaN
    ELSE IF a > 0 THEN PosInf ELSE NegInf

\* x + y
Add(x, y) ==
    IF x.k = "nan" \/ y.k = "nan" THEN NaN
    ELSE IF x.k = "inf" /\ y.k = "inf" THEN (IF x.v = y.v THEN x ELSE NaN)
    ELSE IF x.k = "inf" THEN x
    ELSE IF y.k = "inf" THEN y
    ELSE Num(x.v + y.v)

\* (...).sum(0); the sum of no rows is 0.
RECURSIVE Sum(_)
Sum(xs) == IF xs = <<>> THEN Num(0) ELSE Add(Head(xs), Sum(Tail(xs)))

\* The whole part of the square root of x >= 0, between lo and hi.
RECURSIVE Root(_, _, _)
Root(x, lo, hi) ==
    IF lo >= hi THEN lo
    ELSE LET mid == (lo + hi + 1) \div 2
         IN IF mid * mid <= x THEN Root(x, mid, hi) ELSE Root(x, lo, mid - 1)

\* np.sqrt
Sqrt(x) ==
    IF x.k = "nan" THEN NaN
    ELSE IF x.k = "inf" THEN (IF x.v > 0 THEN PosInf ELSE NaN)
    ELSE IF x.v < 0 THEN NaN
    ELSE Num(Root(x.v * Scale, 0, IF x.v * Scale < 46340 THEN x.v * Scale ELSE 46340))

\* Material.refractive_index; w is wavelength/1e-6.
MaterialIndex(m, w) ==
    LET w2 == w * w
        c0(j) == m.sellmeier[j][1]
        c1(j) == m.sellmeier[j][2]
        n2 == Add(Num(Scale),
                  Sum([j \in 1..Len(m.sellmeier) |-> Div(c0(j) * w2, w2 - c1(j))]))
        nn == Sqrt(n2)
    IN IF m.mirror THEN Neg(nn) ELSE nn

\* FictionalMaterial.refractive_index
FictionalIndex(m, w) == Num(1 * m.nd * Scale)

\* air_refractive_index. c0 is in units of 1e-8 and c1 in units of 1e-4, so
\* c0/(c1 - w2) is c0 over (c1 - 10000 * w2) in units of 1e-4.
AirIndex(w) ==
    LET w2 == w * w
        c0(j) == air.sellmeier[j][1]
        c1(j) == air.sellmeier[j][2]
        term(j) == LET d == c1(j) - 10000 * w2
                   IN IF d # 0 THEN Num(Quot(c0(j), d) * (Scale \div 10000))
                      ELSE PosInf
    IN Add(Num(Scale), Sum([j \in 1..Len(air.sellmeier) |-> term(j)]))

\* An object: its class, the function bound to its refractive_index
\* attribute ("class" when the attribute is the class's method) and its
\* traits.
Object(cls, ri, m) == [cls |-> cls, ri |-> ri, m |-> m]

VacuumObj == Object("FictionalMaterial", "class", vacuum)
VacuumMirrorObj == Object("FictionalMaterial", "class", vacuum_mirror)
AirObj == Object("Material", "air_refractive_index", air)
AirMirrorObj == Object("Material", "lambda", air_mirror)

\* o.refractive_index(wavelength)
RefractiveIndex(o, w) ==
    CASE o.ri = "air_refractive_index" -> AirIndex(w)
      [] o.ri = "lambda" -> Neg(AirIndex(w))
      [] o.ri = "class" /\ o.cls = "FictionalMaterial" -> FictionalIndex(o.m, w)
      [] o.ri = "class" /\ o.cls = "Material" -> MaterialIndex(o.m, w)

\* The materials refractive_index is called on: the bootstrap materials,
\* and Materials and FictionalMaterials with either value of mirror.
Sellmeiers == {<<>>, <<<<1, 2>>>>, <<<<1, 0>>, <<2, 1>>>>}

Objects ==
    {VacuumObj, VacuumMirrorObj, AirObj, AirMirrorObj} \cup
    { Object(c, "class", [Material("X", 0, nd, 1) EXCEPT !.mirror = mi, !.sellmeier = sm]) :
        c \in {"Material", "FictionalMaterial"}, mi \in BOOLEAN,
        nd \in {1, 2}, sm \in Sellmeiers }

IndexInit ==
    /\ file = <<>> /\ pc = "idle" /\ i = 1
    /\ db = Fresh.db /\ name = Fresh.name /\ heap = Fresh.heap
    /\ g = Fresh.g /\ s = Fresh.s /\ cmd = Fresh.cmd
    /\ CacheIdle
    /\ StartupIdle
    /\ CallerIdle
    /\ obj \in Objects
    /\ wavelength \in 0..MaxWavelength
    /\ index = NoNumber
    /\ ipc = "ready"

Evaluate ==
    /\ ipc = "ready"
    /\ index' = RefractiveIndex(obj, wavelength)
    /\ ipc' = "done"
    /\ UNCHANGED <<obj, wavelength, pvars, cvars, mvars, uvars>>

IndexSpec == IndexInit /\ [][Evaluate]_vars

\* The otherwise identical object with the other value of mirror.
Twin(o) == [o EXCEPT !.m.mirror = ~@]

\* C12: refractive_index of an object is the negation of refractive_index
\* of the otherwise identical object with the other value of mirror, for
\* Materials and for FictionalMaterials, and air_mirror and vacuum_mirror
\* return the negation of what air and vacuum return.
C12_MirrorNegates ==
    ipc = "done" =>
        /\ obj.ri = "class" => index = Neg(RefractiveIndex(Twin(obj), wavelength))
        /\ obj = AirMirrorObj => index = Neg(RefractiveIndex(AirObj, wavelength))
        /\ obj = VacuumMirrorObj => index = Neg(RefractiveIndex(VacuumObj, wavelength))

====
